---- MODULE Spec2Model ----
(***************************************************************************)
(* A model of the sequence core of fpjs (src/index.mjs): combinations,     *)
(* partition, group, optimise / maximum / minimum, foldl / foldr,          *)
(* scanl / scanr, limit, flatten and map.                                  *)
(*                                                                         *)
(* Arrays are TLA+ sequences, plain objects are functions from their own   *)
(* string keys to values, generators are materialised as the sequence of   *)
(* values they yield (limit, whose termination is in question, is also     *)
(* modelled pull by pull).  Curried JavaScript closures are represented by *)
(* names (strings) or records and applied by call1 / call2.                *)
(***************************************************************************)
EXTENDS Integers, Sequences, FiniteSets, TLC

VARIABLES
    op,      \* the call the program has made ("idle" before any)
    args,    \* its arguments
    result,  \* what it returned
    gen,     \* the generator or iterator object being consumed
    log,     \* what has been observed so far: outcomes of calls, invocations of callbacks
    host,    \* the host scheduler: its pending registrations and its clock
    looper,  \* the fields of a Looper
    timer,   \* the fields of a Timer
    run,     \* a batch(f, a, n) closure and its run over a sequence
    memo,    \* the closure of cache(f)
    deb,     \* the closure of debounce(f, n)
    heap     \* the objects a program holds, by reference

\* the state the sequence functions do not touch
objects == <<log, host, looper, timer, run, memo, deb, heap>>

vars == <<op, args, result, gen, objects>>

(***************************************************************************)
(* Bounds of the model.                                                    *)
(***************************************************************************)
MaxElem == 2      \* array elements are the numbers 1..MaxElem
MaxLen == 3       \* longest input array
MaxTuple == 2     \* most sequences handed to combinations
MaxCombLen == 2   \* longest sequence handed to combinations
MaxFns == 2       \* most predicates / discriminators handed to partition / group
MaxN == 3         \* largest count handed to limit, largest depth handed to flatten
MaxPulls == 4     \* most values a consumer pulls from a generator over naturals()
MaxWidth == 2     \* longest array inside the nested arrays handed to flatten
MaxExtraNexts == 4  \* most calls of next made on an iterator after its last element
MaxIds == 2       \* the host hands out the ids 1..MaxIds
MaxChunk == 2     \* largest chunk size handed to batch
MaxTime == 3      \* the host's clock runs from 0 to MaxTime
MaxCalls == 5     \* calls made to one cached function
MaxBurst == 3     \* calls made to one debounced function
MaxDelay == 2     \* largest delay n given to debounce
MaxKeys == 3      \* most keys handed to get
MaxRounds == 2    \* calls made in succession to one reducer

Elems == 1..MaxElem

\* JavaScript null, kept apart from every array element
Null == 0

RECURSIVE SeqsUpTo(_, _)
SeqsUpTo(S, n) ==
    IF n = 0 THEN {<<>>}
    ELSE LET shorter == SeqsUpTo(S, n - 1)
         IN  shorter \cup {Append(s, x) : s \in shorter, x \in S}

Arrays == SeqsUpTo(Elems, MaxLen)

\* the concatenation of a sequence of sequences (what a chain of yield* produces)
RECURSIVE Concat(_)
Concat(ss) == IF ss = <<>> THEN <<>> ELSE Head(ss) \o Concat(Tail(ss))

(***************************************************************************)
(* Array helpers                                                           *)
(***************************************************************************)
first(x) == x[1]

tail(x) == SubSeq(x, 2, Len(x))

(***************************************************************************)
(* combinations                                                            *)
(***************************************************************************)
\* a _combine that walks the leftmost sequence fastest
RECURSIVE _combine_leftfast(_, _)
_combine_leftfast(head, tails) ==
    IF Len(tails) = 0 THEN <<head>>
    ELSE Concat([i \in 1..Len(tails[Len(tails)]) |->
                    _combine_leftfast(<<tails[Len(tails)][i]>> \o head,
                                      SubSeq(tails, 1, Len(tails) - 1))])

\* function* _combine(head, tails): the tuples it yields, in order
RECURSIVE _combine(_, _)
_combine(head, tails) ==
    IF Len(tails) = 0 THEN <<head>>
    ELSE Concat([i \in 1..Len(first(tails)) |->
                    _combine(Append(head, first(tails)[i]), tail(tails))])

combinations(xs) == _combine(<<>>, xs)

\* C1: combinations(s1,...,sk) yields the Cartesian product in odometer order:
\* as many tuples as the product of the input lengths (one empty tuple when
\* k = 0, none when an input is empty), the n-th tuple (counting from 0)
\* taking from each sequence the element at that sequence's digit of n written
\* in the mixed radix of the input lengths, the rightmost digit running fastest;
\* so every choice of positions appears exactly once.
RECURSIVE ProductOfLens(_, _)
ProductOfLens(xs, from) ==
    IF from > Len(xs) THEN 1 ELSE Len(xs[from]) * ProductOfLens(xs, from + 1)

OdometerDigit(xs, n, j) == (n \div ProductOfLens(xs, j + 1)) % Len(xs[j])

C1_CartesianOdometer ==
    op = "combinations" =>
        /\ Len(result) = ProductOfLens(args, 1)
        /\ \A n \in 1..Len(result) :
             /\ Len(result[n]) = Len(args)
             /\ \A j \in 1..Len(args) :
                  result[n][j] = args[j][OdometerDigit(args, n - 1, j) + 1]

C1_Witness ==
    /\ op = "combinations"
    /\ args = << <<1, 2>>, <<2, 1>> >>
    /\ result = << <<1, 2>>, <<1, 1>>, <<2, 2>>, <<2, 1>> >>

(***************************************************************************)
(* Closures.  A function value is the record [fn |-> name, a |-> what it   *)
(* has captured]; call1 applies it to one argument and call2 applies a     *)
(* curried two-argument function, as f(a)(b).                              *)
(***************************************************************************)
is(a, b) == a = b

divisible(a, b) == b % a = 0

mult(a, b) == a * b

\* add on two numbers (the Number case of its switch)
add(a, b) == a + b

\* gt that also accepts equal operands
gt_or_equal(a, b) == b >= a

gt(a, b) == b > a

\* lt that also accepts equal operands
lt_or_equal(a, b) == b <= a

lt(a, b) == b < a

gte(a, b) == b >= a

lte(a, b) == b <= a

\* the identity combinator I, and the constant function K(a) = () => a
I(x) == x

K(a, x) == a

RECURSIVE call1(_, _)

\* B applied as b(a(c))
B_swapped(a, b, c) == call1(b, call1(a, c))

\* the bluebird B = a => b => c => a(b(c))
B(a, b, c) == call1(a, call1(b, c))

call1(f, x) ==
    CASE f.fn = "is" -> is(f.a, x)
      [] f.fn = "divisible" -> divisible(f.a, x)
      [] f.fn = "mult" -> mult(f.a, x)
      [] f.fn = "add" -> add(f.a, x)
      [] f.fn = "K" -> K(f.a, x)
      [] f.fn = "I" -> I(x)
      [] f.fn = "B" -> B(f.a[1], f.a[2], x)

Fn(name, a) == [fn |-> name, a |-> a]

\* fs.findIndex(T(x)) scanning from the right
findIndexOfLast(fs, x) ==
    LET hits == {i \in 1..Len(fs) : call1(fs[i], x)}
    IN  IF hits = {} THEN -1 ELSE (CHOOSE i \in hits : \A j \in hits : j <= i) - 1

\* fs.findIndex(T(x)): the 0-based index of the first function true of x, or -1
findIndex(fs, x) ==
    LET hits == {i \in 1..Len(fs) : call1(fs[i], x)}
    IN  IF hits = {} THEN -1 ELSE (CHOOSE i \in hits : \A j \in hits : i <= j) - 1

construct(f, n) == [i \in 1..n |-> call1(f, i - 1)]

(***************************************************************************)
(* Property keys.  groups[g] and groups.hasOwnProperty(g) turn g into a    *)
(* string: a number into its decimal digits, a boolean into true / false.  *)
(***************************************************************************)
Digits == <<"0", "1", "2", "3", "4", "5", "6", "7", "8", "9">>

RECURSIVE NumberToString(_)
NumberToString(n) ==
    IF n < 0 THEN "-" \o NumberToString(-n)
    ELSE IF n < 10 THEN Digits[n + 1]
    ELSE NumberToString(n \div 10) \o Digits[(n % 10) + 1]

\* the type of value a closure returns
ReturnsBoolean(f) == f.fn \in {"is", "divisible"}

\* the property key that the value f(x) becomes
PropertyKey(f, x) ==
    IF ReturnsBoolean(f)
    THEN (IF call1(f, x) THEN "true" ELSE "false")
    ELSE NumberToString(call1(f, x))

\* the object literal {}
EmptyObject == [k \in {} |-> Null]

hasOwnProperty(o, k) == k \in DOMAIN o

(***************************************************************************)
(* The reducers partition and group hand to foldr                          *)
(***************************************************************************)
\* partition's x => tap(xs => ...)
partition_step(fs, x, xs) ==
    LET i == findIndex(fs, x)
    IN  IF i # -1 THEN [xs EXCEPT ![i + 1] = Append(@, x)] ELSE xs

\* group_'s reducer, starting the bucket afresh at every element
group_step_no_check(f, x, groups) ==
    LET g == PropertyKey(f, x)
    IN  (g :> <<x>>) @@ groups

\* group_'s x => tap(groups => ...)
group_step(f, x, groups) ==
    LET g == PropertyKey(f, x)
        made == IF ~hasOwnProperty(groups, g) THEN (g :> <<>>) @@ groups ELSE groups
    IN  [made EXCEPT ![g] = Append(@, x)]

\* objectify's x => tap(o => o[f(x)] = x)
objectify_step(f, x, o) == (PropertyKey(f, x) :> x) @@ o

\* count's x => tap(xs => ...)
count_step(x, xs) ==
    LET k == NumberToString(x)
        made == IF ~hasOwnProperty(xs, k) THEN (k :> 0) @@ xs ELSE xs
    IN  [made EXCEPT ![k] = @ + 1]

\* f(a)(b) for the two-argument curried functions; minus and horner are a
\* caller's own a => b => a - b and a => b => 2 * a + b, and the cardinal
\* C(f) = b => c => f(c)(b) is f with its arguments flipped
RECURSIVE call2(_, _, _)
call2(f, a, b) ==
    CASE f.fn = "partition_step" -> partition_step(f.a, a, b)
      [] f.fn = "group_step" -> group_step(f.a, a, b)
      [] f.fn = "count_step" -> count_step(a, b)
      [] f.fn = "objectify_step" -> objectify_step(f.a, a, b)
      [] f.fn = "gt" -> gt(a, b)
      [] f.fn = "lt" -> lt(a, b)
      [] f.fn = "gte" -> gte(a, b)
      [] f.fn = "lte" -> lte(a, b)
      [] f.fn = "add" -> add(a, b)
      [] f.fn = "mult" -> mult(a, b)
      [] f.fn = "K" -> K(a, b)
      [] f.fn = "minus" -> a - b
      [] f.fn = "horner" -> 2 * a + b
      [] f.fn = "C" -> call2(f.a, b, a)

(***************************************************************************)
(* foldl, foldr.  The run records, next to the accumulator, the calls of f *)
(* the loop makes, each as the pair of its two arguments.                  *)
(***************************************************************************)
foldl_run(f, i, xs) ==
    LET st[k \in 0..Len(xs)] ==
            IF k = 0 THEN [a |-> i, calls |-> <<>>]
            ELSE [a |-> call2(f, st[k - 1].a, xs[k]),
                  calls |-> Append(st[k - 1].calls, <<st[k - 1].a, xs[k]>>)]
    IN  st[Len(xs)]

\* a foldr that walks the sequence from its end
foldr_run_from_end(f, i, xs) ==
    LET n == Len(xs)
        st[k \in 0..n] ==
            IF k = 0 THEN [a |-> i, calls |-> <<>>]
            ELSE [a |-> call2(f, xs[n + 1 - k], st[k - 1].a),
                  calls |-> Append(st[k - 1].calls, <<xs[n + 1 - k], st[k - 1].a>>)]
    IN  st[n]

foldr_run(f, i, xs) ==
    LET st[k \in 0..Len(xs)] ==
            IF k = 0 THEN [a |-> i, calls |-> <<>>]
            ELSE [a |-> call2(f, xs[k], st[k - 1].a),
                  calls |-> Append(st[k - 1].calls, <<xs[k], st[k - 1].a>>)]
    IN  st[Len(xs)]

foldl(f, i, xs) == foldl_run(f, i, xs).a

foldr(f, i, xs) == foldr_run(f, i, xs).a

(***************************************************************************)
(* scanl, scanr, map: the values the generators yield, in order            *)
(***************************************************************************)
\* a scanl that yields the accumulator before combining, seed first
scanl_seed_first(f, i, xs) ==
    LET a[k \in 0..Len(xs)] == IF k = 0 THEN i ELSE call2(f, a[k - 1], xs[k])
    IN  [k \in 1..Len(xs) |-> a[k - 1]]

scanl(f, i, xs) ==
    LET a[k \in 0..Len(xs)] == IF k = 0 THEN i ELSE call2(f, a[k - 1], xs[k])
    IN  [k \in 1..Len(xs) |-> a[k]]

scanr(f, i, xs) ==
    LET a[k \in 0..Len(xs)] == IF k = 0 THEN i ELSE call2(f, xs[k], a[k - 1])
    IN  [k \in 1..Len(xs) |-> a[k]]

\* a map that stops one element early
map_short(f, xs) == [k \in 1..(Len(xs) - 1) |-> call1(f, xs[k])]

map(f, xs) == [k \in 1..Len(xs) |-> call1(f, xs[k])]

(***************************************************************************)
(* optimise, maximum, minimum.  The run records, next to the optimum m,    *)
(* the elements key was applied to, in order.                              *)
(***************************************************************************)
\* an optimise that hands comp the candidate's key first
optimise_run_flipped(comp, key, xs) ==
    IF Len(xs) = 0 THEN [m |-> Null, keyed |-> <<>>]
    ELSE LET st[k \in 1..Len(xs)] ==
                 IF k = 1
                 THEN [m |-> xs[1], mv |-> call1(key, xs[1]), keyed |-> <<xs[1]>>]
                 ELSE LET xv == call1(key, xs[k])
                          keyed == Append(st[k - 1].keyed, xs[k])
                      IN  IF call2(comp, xv, st[k - 1].mv)
                          THEN [m |-> xs[k], mv |-> xv, keyed |-> keyed]
                          ELSE [st[k - 1] EXCEPT !.keyed = keyed]
         IN  [m |-> st[Len(xs)].m, keyed |-> st[Len(xs)].keyed]

optimise_run(comp, key, xs) ==
    IF Len(xs) = 0 THEN [m |-> Null, keyed |-> <<>>]
    ELSE LET st[k \in 1..Len(xs)] ==
                 IF k = 1
                 THEN [m |-> xs[1], mv |-> call1(key, xs[1]), keyed |-> <<xs[1]>>]
                 ELSE LET xv == call1(key, xs[k])
                          keyed == Append(st[k - 1].keyed, xs[k])
                      IN  IF call2(comp, st[k - 1].mv, xv)
                          THEN [m |-> xs[k], mv |-> xv, keyed |-> keyed]
                          ELSE [st[k - 1] EXCEPT !.keyed = keyed]
         IN  [m |-> st[Len(xs)].m, keyed |-> st[Len(xs)].keyed]

optimise(comp, key, xs) == optimise_run(comp, key, xs).m

maximum(key, xs) == optimise(Fn("gt", Null), key, xs)

minimum(key, xs) == optimise(Fn("lt", Null), key, xs)

(***************************************************************************)
(* partition, group                                                        *)
(***************************************************************************)
\* partition(...fs): the closure it returns holds fs and the seed built once
partition(fs) == [fs |-> fs, seed |-> construct(Fn("K", <<>>), Len(fs))]

\* partition(...fs)(xs), applied to the closure p
partition_apply(p, xs) == foldr(Fn("partition_step", p.fs), p.seed, xs)

group_(f, xs) == foldr(Fn("group_step", f), EmptyObject, xs)

RECURSIVE group(_, _)
group(fs, xs) ==
    IF Len(fs) = 0 THEN xs
    ELSE LET groups == group_(first(fs), xs)
         IN  [k \in DOMAIN groups |-> group(tail(fs), groups[k])]

\* C2: partition(p1,...,pN)(xs), for a freshly built partition(p1,...,pN),
\* returns N buckets in predicate order; bucket i lists, in source order,
\* exactly the elements of xs that satisfy pi and none of p1..p(i-1), so an
\* element is in the bucket of the first predicate it satisfies and in no
\* other, and an element satisfying no predicate is in no bucket.
FirstSatisfied(fs, i, x) ==
    /\ call1(fs[i], x)
    /\ \A j \in 1..(i - 1) : ~call1(fs[j], x)

C2_PartitionFirstMatch ==
    op = "partition" =>
        /\ Len(result) = Len(args.fs)
        /\ \A i \in 1..Len(args.fs) :
             result[i] = SelectSeq(args.xs, LAMBDA x : FirstSatisfied(args.fs, i, x))

\* an element satisfying both predicates, one satisfying only the second
C2_Witness ==
    /\ op = "partition"
    /\ args.fs = <<Fn("divisible", 2), Fn("divisible", 1)>>
    /\ args.xs = <<1, 2, 1>>
    /\ result = << <<2>>, <<1, 1>> >>

\* C3: group(d1,...,dk)(xs) is a mapping nested k levels deep, level i keyed
\* by the stringified result of di: its keys are exactly the keys that some
\* element of xs has (no empty bucket), and under each key lies the grouping,
\* by the remaining discriminators, of the elements of xs with that key, in
\* source order (so every element is in exactly one leaf bucket, the one its
\* keys address); with k = 0 it is xs itself.
RECURSIVE IsGrouping(_, _, _)
IsGrouping(r, fs, xs) ==
    IF Len(fs) = 0 THEN r = xs
    ELSE /\ DOMAIN r = {PropertyKey(fs[1], xs[i]) : i \in 1..Len(xs)}
         /\ \A k \in DOMAIN r :
              IsGrouping(r[k], Tail(fs),
                         SelectSeq(xs, LAMBDA x : PropertyKey(fs[1], x) = k))

C3_GroupNested == op = "group" => IsGrouping(result, args.fs, args.xs)

\* two levels, a bucket with two elements in source order
C3_Witness ==
    /\ op = "group"
    /\ args.fs = <<Fn("divisible", 2), Fn("mult", 5)>>
    /\ args.xs = <<2, 1, 2>>
    /\ result = ("true" :> ("10" :> <<2, 2>>)) @@ ("false" :> ("5" :> <<1>>))

(***************************************************************************)
(* limit, pull by pull.  A source is an array or the generator naturals(); *)
(* the generator object limit(n)(src) holds n, the source, how many        *)
(* elements it has taken from the source (pos), its counter i, where its   *)
(* body stands (st) and, for the record, the values it has yielded (out).  *)
(***************************************************************************)
ArraySource(xs) == [kind |-> "array", xs |-> xs]

\* function* naturals(): yields 0, 1, 2, ... without end
naturals == [kind |-> "naturals", xs |-> <<>>]

\* whether the source's iterator has an element after pos taken ones, and which
SourceHas(src, pos) == src.kind = "naturals" \/ pos < Len(src.xs)

SourceAt(src, pos) == IF src.kind = "naturals" THEN pos ELSE src.xs[pos + 1]

\* limit(n)(src): the generator object, its body not yet started
limit(n, src) == [n |-> n, src |-> src, pos |-> 0, i |-> 0, out |-> <<>>, st |-> "start"]

\* the for-of loop asks the source for its next element: yield it, or finish
limit_advance(g) ==
    IF SourceHas(g.src, g.pos)
    THEN [g EXCEPT !.out = Append(@, SourceAt(g.src, g.pos)),
                   !.pos = @ + 1,
                   !.st = "yielded"]
    ELSE [g EXCEPT !.st = "done"]

\* one next() on the generator object: run its body to the next yield or its end
limit_next(g) ==
    IF g.st = "start" THEN limit_advance(g)
    ELSE IF g.i + 1 = g.n THEN [g EXCEPT !.i = @ + 1, !.st = "done"]
    ELSE limit_advance([g EXCEPT !.i = @ + 1])

(***************************************************************************)
(* flatten.  Its elements are numbers or arrays, nested: a value is the    *)
(* record [t |-> "number" or "array", v |-> the number or the sequence].   *)
(* The result is what the generator yields and whether it then threw.      *)
(***************************************************************************)
Num(n) == [t |-> "number", v |-> n]

Arr(s) == [t |-> "array", v |-> s]

isIterable(x) == x.t = "array"

\* for (const x of xs) on a value that is not iterable throws a TypeError
RECURSIVE flatten(_, _)
flatten(n, xs) ==
    IF ~isIterable(xs) THEN [out |-> <<>>, thrown |-> TRUE]
    ELSE LET st[k \in 0..Len(xs.v)] ==
                 IF k = 0 THEN [out |-> <<>>, thrown |-> FALSE]
                 ELSE IF st[k - 1].thrown THEN st[k - 1]
                 ELSE IF n > 0 /\ isIterable(xs)
                      THEN LET r == flatten(n - 1, xs.v[k])
                           IN  [out |-> st[k - 1].out \o r.out, thrown |-> r.thrown]
                      ELSE [out |-> Append(st[k - 1].out, xs.v[k]), thrown |-> FALSE]
         IN  st[Len(xs.v)]

\* C4: optimise(comp)(key)(xs) is null for an empty xs; otherwise it is the
\* element that survives one left-to-right pass which starts from the first
\* element and replaces the current optimum by a later element x exactly when
\* comp(key(current))(key(x)) is true; key is applied once to each element.
Survivor(comp, key, xs) ==
    LET cur[k \in 1..Len(xs)] ==
            IF k = 1 THEN xs[1]
            ELSE IF call2(comp, call1(key, cur[k - 1]), call1(key, xs[k]))
                 THEN xs[k] ELSE cur[k - 1]
    IN  cur[Len(xs)]

EarliestWith(key, xs, best) ==
    CHOOSE i \in 1..Len(xs) :
        /\ call1(key, xs[i]) = best
        /\ \A j \in 1..(i - 1) : call1(key, xs[j]) # best

KeysOf(key, xs) == {call1(key, xs[i]) : i \in 1..Len(xs)}

C5_ExtremumEarliest ==
    /\ (op = "maximum" /\ args.xs # <<>>) =>
          LET best == CHOOSE v \in KeysOf(args.key, args.xs) :
                          \A w \in KeysOf(args.key, args.xs) : v >= w
          IN  result = args.xs[EarliestWith(args.key, args.xs, best)]
    /\ (op = "minimum" /\ args.xs # <<>>) =>
          LET best == CHOOSE v \in KeysOf(args.key, args.xs) :
                          \A w \in KeysOf(args.key, args.xs) : v <= w
          IN  result = args.xs[EarliestWith(args.key, args.xs, best)]

\* every key ties: the first element is returned, not a later one
C5_Witness ==
    /\ op = "maximum"
    /\ args.key = Fn("K", 1)
    /\ args.xs = <<2, 1>>
    /\ result = 2

\* C6: foldl calls f(acc)(elem) and foldr calls f(elem)(acc), once per
\* element, in source order, the first call on the seed and each later call
\* on the previous call's value; the value of the last call is returned, and
\* on an empty sequence the seed is returned and f is not called; foldr(f)
\* returns what foldl returns for f with its arguments flipped.
ChainedCalls(f, seed, xs, r, accAt, elemAt) ==
    /\ Len(r.calls) = Len(xs)
    /\ \A k \in 1..Len(xs) :
         /\ r.calls[k][elemAt] = xs[k]
         /\ r.calls[k][accAt] =
               IF k = 1 THEN seed
               ELSE call2(f, r.calls[k - 1][1], r.calls[k - 1][2])
    /\ r.a = IF xs = <<>> THEN seed
             ELSE call2(f, r.calls[Len(xs)][1], r.calls[Len(xs)][2])

C6_FoldOrder ==
    /\ op = "foldl" => ChainedCalls(args.f, args.i, args.xs, result, 1, 2)
    /\ op = "foldr" =>
          /\ ChainedCalls(args.f, args.i, args.xs, result, 2, 1)
          /\ result.a = foldl(Fn("C", args.f), args.i, args.xs)

\* a function that is not commutative, folded from the right argument
C6_Witness ==
    /\ op = "foldr"
    /\ args.f = Fn("minus", Null)
    /\ args.i = 0
    /\ args.xs = <<1, 2, 2>>
    /\ result.a = 1
    /\ result.calls = << <<1, 0>>, <<2, 1>>, <<2, 1>> >>

C10_MapFusion ==
    op = "map" =>
        /\ result.nested = result.fused
        /\ Len(result.nested) = Len(args.xs)
        /\ Len(result.fused) = Len(args.xs)
        /\ \A k \in 1..Len(args.xs) :
             result.nested[k] = call1(args.g, call1(args.f, args.xs[k]))

\* two functions that do not commute
C10_Witness ==
    /\ op = "map"
    /\ args.f = Fn("add", 1)
    /\ args.g = Fn("mult", 2)
    /\ args.xs = <<1, 2>>
    /\ result.fused = <<4, 6>>

\* C8: limit(n)(xs), n >= 0, never yields more than n values; what it has
\* yielded is always the first values of xs, in order; and once it has
\* finished it has yielded min(n, length of xs) of them.
C8_LimitFirstN ==
    op = "limit" =>
        /\ Len(gen.out) <= gen.n
        /\ \A k \in 1..Len(gen.out) : gen.out[k] = SourceAt(gen.src, k - 1)
        /\ (gen.st = "done" /\ gen.src.kind = "array") =>
              Len(gen.out) = IF gen.n < Len(gen.src.xs) THEN gen.n ELSE Len(gen.src.xs)
        /\ (gen.st = "done" /\ gen.src.kind = "naturals") => Len(gen.out) = gen.n

\* C9: flatten(depth)(xs) does not throw and yields, in order, for each
\* element of xs: the element itself when it is not a sequence or when depth
\* is 0, and otherwise what flatten(depth - 1) yields for it.
RECURSIVE Expanded(_, _)
Expanded(n, xs) ==
    Concat([k \in 1..Len(xs.v) |->
               IF n > 0 /\ isIterable(xs.v[k])
               THEN Expanded(n - 1, xs.v[k])
               ELSE <<xs.v[k]>>])

C9_FlattenToDepth ==
    op = "flatten" =>
        /\ ~result.thrown
        /\ result.out = Expanded(args.n, args.xs)

(***************************************************************************)
(* The host scheduler.  Its pending registrations (setTimeout, setInterval)*)
(* are a function from their ids to what was registered; an id is a        *)
(* positive number that no pending registration has.  now is its clock.    *)
(***************************************************************************)
NoTimers == [timers |-> <<>>, now |-> 0]

\* the ids the host may hand out next
FreeIds(h) == (1..MaxIds) \ DOMAIN h.timers

Pending(h) == DOMAIN h.timers

\* setTimeout(cb, ms), the host choosing id
setTimeout(h, id, cb, ms) ==
    [h EXCEPT !.timers = (id :> [kind |-> "timeout", cb |-> cb, ms |-> ms, due |-> h.now + ms]) @@ @]

\* setInterval(cb, ms), the host choosing id
setInterval(h, id, cb, ms) ==
    [h EXCEPT !.timers = (id :> [kind |-> "interval", cb |-> cb, ms |-> ms, due |-> h.now + ms]) @@ @]

\* clearTimeout(id) and clearInterval(id): one pool of ids; an id that is not pending is ignored
clearTimeout(h, id) ==
    [h EXCEPT !.timers = [j \in DOMAIN @ \ {id} |-> @[j]]]

clearInterval(h, id) == clearTimeout(h, id)

\* the host takes a due registration to run its callback: a timeout is spent, an interval goes on
Fired(h, id) ==
    IF h.timers[id].kind = "timeout" THEN clearTimeout(h, id)
    ELSE [h EXCEPT !.timers[id].due = h.now + h.timers[id].ms]

\* time passes, once every registration that is due has been run
CanPass(h) == h.now < MaxTime /\ \A id \in Pending(h) : h.timers[id].due > h.now

Passed(h) == [h EXCEPT !.now = @ + 1]

(***************************************************************************)
(* Looper and Timer: the objects' fields, and their methods as the object  *)
(* and the host after the call (id is the id the host returns)             *)
(***************************************************************************)
\* new Looper(f, ms)
Looper(f, ms) == [f |-> f, ms |-> ms, id |-> Null]

Looper_stop(l, h) ==
    IF l.id # Null
    THEN [obj |-> [l EXCEPT !.id = Null], host |-> clearInterval(h, l.id)]
    ELSE [obj |-> l, host |-> h]

\* the first line of start(): if (this.id !== null) this.stop()
Looper_restart(l, h) ==
    IF l.id # Null THEN Looper_stop(l, h) ELSE [obj |-> l, host |-> h]

\* a start() that does not stop first
Looper_start_no_stop(l, h, id) ==
    [obj |-> [l EXCEPT !.id = id], host |-> setInterval(h, id, l.f, l.ms)]

Looper_start(l, h, id) ==
    LET s == Looper_restart(l, h)
    IN  [obj |-> [s.obj EXCEPT !.id = id], host |-> setInterval(s.host, id, l.f, l.ms)]

\* new Timer(f, ms)
Timer(f, ms) == [f |-> f, ms |-> ms, id |-> Null]

Timer_stop(t, h) ==
    IF t.id # Null
    THEN [obj |-> [t EXCEPT !.id = Null], host |-> clearTimeout(h, t.id)]
    ELSE [obj |-> t, host |-> h]

Timer_restart(t, h) ==
    IF t.id # Null THEN Timer_stop(t, h) ELSE [obj |-> t, host |-> h]

Timer_start(t, h, id) ==
    LET s == Timer_restart(t, h)
    IN  [obj |-> [s.obj EXCEPT !.id = id], host |-> setTimeout(s.host, id, t.f, t.ms)]

\* a next_tick that registers nothing
next_tick_lost(h, id, cb) == h

\* export const next_tick = f => setTimeout(f, 0)
next_tick(h, id, cb) == setTimeout(h, id, cb, 0)

(***************************************************************************)
(* The calls a program makes: one call per behaviour, its arguments drawn  *)
(* from the bounded sets above.                                            *)
(***************************************************************************)
Init ==
    /\ op = "idle"
    /\ args = <<>>
    /\ result = Null
    /\ gen = Null
    /\ log = <<>>
    /\ host = NoTimers
    /\ looper = Looper([fn |-> "Looper.f"], 1)
    /\ timer = Timer([fn |-> "Timer.f"], 1)
    /\ run = Null
    /\ memo = Null
    /\ deb = Null
    /\ heap = <<>>

CallCombinations ==
    /\ op = "idle"
    /\ \E xs \in SeqsUpTo(SeqsUpTo(Elems, MaxCombLen), MaxTuple) :
         /\ op' = "combinations"
         /\ args' = xs
         /\ result' = combinations(xs)
    /\ UNCHANGED <<gen, objects>>

\* the predicates handed to partition
Preds == {Fn("is", 1), Fn("divisible", 2), Fn("divisible", 1)}

CallPartition ==
    /\ op = "idle"
    /\ \E fs \in SeqsUpTo(Preds, MaxFns), xs \in Arrays :
         /\ op' = "partition"
         /\ args' = [fs |-> fs, xs |-> xs]
         /\ result' = partition_apply(partition(fs), xs)
    /\ UNCHANGED <<gen, objects>>

\* the discriminators handed to group
Discriminators == {Fn("I", Null), Fn("divisible", 2), Fn("mult", 5)}

CallGroup ==
    /\ op = "idle"
    /\ \E fs \in SeqsUpTo(Discriminators, MaxFns), xs \in Arrays :
         /\ op' = "group"
         /\ args' = [fs |-> fs, xs |-> xs]
         /\ result' = group(fs, xs)
    /\ UNCHANGED <<gen, objects>>

\* the comparators and key functions handed to optimise
Comparators == {Fn("gt", Null), Fn("lt", Null), Fn("gte", Null), Fn("lte", Null)}

Keys == {Fn("I", Null), Fn("mult", -1), Fn("K", 1)}

CallOptimise ==
    /\ op = "idle"
    /\ \E comp \in Comparators, key \in Keys, xs \in Arrays :
         /\ op' = "optimise"
         /\ args' = [comp |-> comp, key |-> key, xs |-> xs]
         /\ result' = optimise_run(comp, key, xs)
    /\ UNCHANGED <<gen, objects>>

CallMaximum ==
    /\ op = "idle"
    /\ \E key \in Keys, xs \in Arrays :
         /\ op' = "maximum"
         /\ args' = [key |-> key, xs |-> xs]
         /\ result' = maximum(key, xs)
    /\ UNCHANGED <<gen, objects>>

CallMinimum ==
    /\ op = "idle"
    /\ \E key \in Keys, xs \in Arrays :
         /\ op' = "minimum"
         /\ args' = [key |-> key, xs |-> xs]
         /\ result' = minimum(key, xs)
    /\ UNCHANGED <<gen, objects>>

\* the combining functions and seeds handed to the folds and scans
Combiners == {Fn("add", Null), Fn("minus", Null), Fn("horner", Null), Fn("K", Null)}

Seeds == {0, 1}

CallFoldl ==
    /\ op = "idle"
    /\ \E f \in Combiners, i \in Seeds, xs \in Arrays :
         /\ op' = "foldl"
         /\ args' = [f |-> f, i |-> i, xs |-> xs]
         /\ result' = foldl_run(f, i, xs)
    /\ UNCHANGED <<gen, objects>>

CallFoldr ==
    /\ op = "idle"
    /\ \E f \in Combiners, i \in Seeds, xs \in Arrays :
         /\ op' = "foldr"
         /\ args' = [f |-> f, i |-> i, xs |-> xs]
         /\ result' = foldr_run(f, i, xs)
    /\ UNCHANGED <<gen, objects>>

CallScanl ==
    /\ op = "idle"
    /\ \E f \in Combiners, i \in Seeds, xs \in Arrays :
         /\ op' = "scanl"
         /\ args' = [f |-> f, i |-> i, xs |-> xs]
         /\ result' = scanl(f, i, xs)
    /\ UNCHANGED <<gen, objects>>

CallScanr ==
    /\ op = "idle"
    /\ \E f \in Combiners, i \in Seeds, xs \in Arrays :
         /\ op' = "scanr"
         /\ args' = [f |-> f, i |-> i, xs |-> xs]
         /\ result' = scanr(f, i, xs)
    /\ UNCHANGED <<gen, objects>>

\* the functions handed to map
Mappers == {Fn("I", Null), Fn("add", 1), Fn("mult", 2), Fn("K", 1)}

\* map(g)(map(f)(xs)) next to map(B(g)(f))(xs)
CallMap ==
    /\ op = "idle"
    /\ \E f \in Mappers, g \in Mappers, xs \in Arrays :
         /\ op' = "map"
         /\ args' = [f |-> f, g |-> g, xs |-> xs]
         /\ result' = [nested |-> map(g, map(f, xs)),
                       fused |-> map(Fn("B", <<g, f>>), xs)]
    /\ UNCHANGED <<gen, objects>>

Next ==
    \/ CallCombinations
    \/ CallPartition
    \/ CallGroup
    \/ CallOptimise
    \/ CallMaximum
    \/ CallMinimum
    \/ CallFoldl
    \/ CallFoldr
    \/ CallScanl
    \/ CallScanr
    \/ CallMap

Spec == Init /\ [][Next]_vars

(***************************************************************************)
(* A consumer of limit(n)(src): it builds the generator object and pulls   *)
(* from it until it finishes (at most MaxPulls values from naturals()).    *)
(***************************************************************************)
CallLimit ==
    /\ op = "idle"
    /\ \E n \in 0..MaxN, src \in {ArraySource(xs) : xs \in Arrays} \cup {naturals} :
         /\ op' = "limit"
         /\ gen' = limit(n, src)
    /\ UNCHANGED <<args, result, objects>>

LimitNext ==
    /\ op = "limit"
    /\ gen.st # "done"
    /\ Len(gen.out) < MaxPulls
    /\ gen' = limit_next(gen)
    /\ UNCHANGED <<op, args, result, objects>>

NextLimit ==
    \/ CallLimit
    \/ LimitNext

SpecLimit == Init /\ [][NextLimit]_vars

(***************************************************************************)
(* flatten, applied to arrays nested up to three deep                      *)
(***************************************************************************)
ArraysOf(S) == {Arr(s) : s \in SeqsUpTo(S, MaxWidth)}

Numbers == {Num(n) : n \in Elems}

Nested1 == Numbers \cup ArraysOf(Numbers)

Nested2 == Numbers \cup ArraysOf(Nested1)

CallFlatten ==
    /\ op = "idle"
    /\ \E n \in 0..MaxN, xs \in ArraysOf(Nested2) :
         /\ op' = "flatten"
         /\ args' = [n |-> n, xs |-> xs]
         /\ result' = flatten(n, xs)
    /\ UNCHANGED <<gen, objects>>

NextFlatten ==
    \/ CallFlatten

SpecFlatten == Init /\ [][NextFlatten]_vars

(***************************************************************************)
(* iter and next.  An array iterator holds the array and how many elements *)
(* it has handed out; log is the outcome of each next(it) so far.          *)
(***************************************************************************)
\* export const StopIteration = Symbol(), kept apart from every array element
StopIteration == -1

\* the value undefined, kept apart from every array element
Undefined == -2

\* iter(xs) for an array xs
iter(xs) == [xs |-> xs, pos |-> 0]

\* the iterator's own next(): the iterator afterwards and the {value, done} it returns
iterator_next(it) ==
    IF it.pos < Len(it.xs)
    THEN [it |-> [it EXCEPT !.pos = @ + 1], value |-> it.xs[it.pos + 1], done |-> FALSE]
    ELSE [it |-> it, value |-> Undefined, done |-> TRUE]

\* a next that returns v.value whatever v.done is
next_never_throws(x) ==
    LET v == iterator_next(x)
    IN  [it |-> v.it, thrown |-> FALSE, value |-> v.value]

\* next(x): the iterator afterwards, and the value returned or thrown
next(x) ==
    LET v == iterator_next(x)
    IN  IF v.done = TRUE
        THEN [it |-> v.it, thrown |-> TRUE, value |-> StopIteration]
        ELSE [it |-> v.it, thrown |-> FALSE, value |-> v.value]

CallIter ==
    /\ op = "idle"
    /\ \E xs \in Arrays :
         /\ op' = "iter"
         /\ args' = xs
         /\ gen' = iter(xs)
    /\ log' = <<>>
    /\ UNCHANGED <<result, host, looper, timer, run, memo, deb, heap>>

CallNext ==
    /\ op = "iter"
    /\ Len(log) < Len(args) + MaxExtraNexts
    /\ LET r == next(gen)
       IN  /\ gen' = r.it
           /\ log' = Append(log, [thrown |-> r.thrown, value |-> r.value])
    /\ UNCHANGED <<op, args, result, host, looper, timer, run, memo, deb, heap>>

NextIter ==
    \/ CallIter
    \/ CallNext

SpecIter == Init /\ [][NextIter]_vars

\* C11: on an iterator over a sequence of n elements, the k-th call of next
\* returns the k-th element for k <= n, and every later call throws
\* StopIteration and returns nothing.
C11_NextThenStopIteration ==
    op = "iter" =>
        \A k \in 1..Len(log) :
            IF k <= Len(args)
            THEN log[k] = [thrown |-> FALSE, value |-> args[k]]
            ELSE log[k] = [thrown |-> TRUE, value |-> StopIteration]

\* three elements handed out, then two calls that throw
C11_Witness ==
    /\ op = "iter"
    /\ args = <<1, 2, 1>>
    /\ Len(log) = 5
    /\ log[3] = [thrown |-> FALSE, value |-> 1]
    /\ log[4].thrown
    /\ log[5].thrown

(***************************************************************************)
(* batch.  run holds the closure's f, a and n, the iterator of the run,    *)
(* tick's counter i, where the run stands (pc: "tick" inside tick's loop,  *)
(* "yielded" with a continuation handed to next_tick, "done"), the promise *)
(* and, for the record, how many elements the current tick has processed   *)
(* (chunk) and how often the promise's resolver was called (resolves).     *)
(***************************************************************************)
\* batch(f, a, n)(xs): the promise's executor enters tick(iter(xs))
batch(f, a, n, xs) ==
    [f |-> f, a |-> a, n |-> n, it |-> iter(xs), i |-> 0, pc |-> "tick",
     chunk |-> 0, promise |-> [state |-> "pending", value |-> Null], resolves |-> 0]

\* a loop test that lets one more element through
loop_test_inclusive(r) == r.i <= r.n

\* while (i++ < n): the test, before the increment
loop_test(r) == r.i < r.n

\* a combination that hands f the accumulator first
combine_acc_first(r, x) == call2(r.f, r.a, x)

\* a = f(x.value)(a)
combine(r, x) == call2(r.f, x, r.a)

\* yes(a): the first call settles the promise
resolve(r) ==
    [r EXCEPT !.promise = IF @.state = "pending"
                          THEN [state |-> "fulfilled", value |-> r.a] ELSE @,
              !.resolves = @ + 1,
              !.pc = "done"]

\* one round of tick's loop, or the next_tick after it: the run and the host afterwards
tick_step(r, h, id) ==
    IF loop_test(r)
    THEN LET x == iterator_next(r.it)
             r1 == [r EXCEPT !.i = @ + 1, !.it = x.it]
         IN  IF x.done
             THEN [run |-> resolve(r1), host |-> h]
             ELSE [run |-> [r1 EXCEPT !.a = combine(r, x.value), !.chunk = @ + 1],
                   host |-> h]
    ELSE [run |-> [r EXCEPT !.i = @ + 1, !.pc = "yielded"],
          host |-> next_tick(h, id, [fn |-> "tick"])]

\* the continuation () => tick(xs): tick starts again with i = 0
tick(r) == [r EXCEPT !.i = 0, !.chunk = 0, !.pc = "tick"]

StartBatch ==
    /\ op = "idle"
    /\ \E f \in Combiners, a \in Seeds, n \in 1..MaxChunk, xs \in Arrays :
         /\ op' = "batch"
         /\ args' = [f |-> f, a |-> a, n |-> n, xs |-> xs]
         /\ run' = batch(f, a, n, xs)
    /\ UNCHANGED <<result, gen, log, host, looper, timer, memo, deb, heap>>

TickStep ==
    /\ op = "batch"
    /\ run.pc = "tick"
    /\ \E id \in FreeIds(host) :
         LET after == tick_step(run, host, id)
         IN  /\ run' = after.run
             /\ host' = after.host
    /\ UNCHANGED <<op, args, result, gen, log, looper, timer, memo, deb, heap>>

\* the host runs a continuation that is due
RunContinuation ==
    /\ op = "batch"
    /\ \E id \in Pending(host) :
         /\ host.timers[id].cb = [fn |-> "tick"]
         /\ host.timers[id].due <= host.now
         /\ host' = Fired(host, id)
         /\ run' = tick(run)
    /\ UNCHANGED <<op, args, result, gen, log, looper, timer, memo, deb, heap>>

NextBatch ==
    \/ StartBatch
    \/ TickStep
    \/ RunContinuation

SpecBatch == Init /\ [][NextBatch]_vars

\* the program runs on while it has something to run, and the host runs every
\* continuation handed to next_tick
SpecBatchLive ==
    Init /\ [][NextBatch]_vars /\ WF_vars(TickStep) /\ WF_vars(RunContinuation)

Resolved == op = "batch" /\ run.promise.state = "fulfilled"

\* C12: the promise of a freshly built batch(f, a, n) applied to xs, n >= 1,
\* resolves with what foldr(f)(a)(xs) returns, whatever n is.
C12_BatchIsFoldr ==
    Resolved => run.promise.value = foldr(args.f, args.a, args.xs)

\* three elements in chunks of two, combined by a function that is not commutative
C12_Witness ==
    /\ Resolved
    /\ args.f = Fn("minus", Null)
    /\ args.n = 2
    /\ args.xs = <<1, 2, 2>>
    /\ run.promise.value = 1

\* C13: a tick processes at most n elements; when it gives control back
\* without having resolved, it has processed a full chunk of n and exactly one
\* continuation is pending; never is more than one pending; and once the
\* promise has resolved nothing is pending and no element is processed.
C13_ChunkInvariant ==
    op = "batch" =>
        /\ run.chunk <= run.n
        /\ Cardinality(Pending(host)) <= 1
        /\ run.pc = "yielded" => (run.chunk = run.n /\ Cardinality(Pending(host)) = 1)
        /\ run.pc = "tick" => Pending(host) = {}
        /\ run.promise.state = "fulfilled" => (run.pc = "done" /\ Pending(host) = {})

C13_ChunksAndYields ==
    /\ []C13_ChunkInvariant
    /\ [][Resolved => (run'.it = run.it /\ run'.a = run.a)]_vars

\* a full chunk processed and its continuation pending, elements still to come
C13_Witness ==
    /\ op = "batch"
    /\ run.pc = "yielded"
    /\ run.n = 2
    /\ run.chunk = 2
    /\ run.it.pos < Len(args.xs)

\* C14: for a finite sequence and n >= 1, when the host runs every
\* continuation, the promise eventually resolves; its resolver is called at
\* most once, and only when every element has been processed.
C14_BatchResolves ==
    /\ [](op = "batch" => <>Resolved)
    /\ [](op = "batch" => run.resolves <= 1)
    /\ [](Resolved => (run.resolves = 1 /\ run.it.pos = Len(args.xs)))

\* resolved after more than one tick
C14_Witness ==
    /\ Resolved
    /\ run.resolves = 1
    /\ Len(args.xs) = 3
    /\ args.n = 1

(***************************************************************************)
(* A program holding one Looper and one Timer on the same host.  op is the *)
(* last thing that happened, log the last two method calls.                *)
(***************************************************************************)
LastTwo(calls) == IF Len(calls) > 2 THEN SubSeq(calls, Len(calls) - 1, Len(calls)) ELSE calls

LooperStart ==
    /\ \E id \in FreeIds(Looper_restart(looper, host).host) :
         LET after == Looper_start(looper, host, id)
         IN  /\ looper' = after.obj
             /\ host' = after.host
    /\ op' = "Looper.start"
    /\ log' = LastTwo(Append(log, "Looper.start"))
    /\ UNCHANGED <<args, result, gen, timer, run, memo, deb, heap>>

LooperStop ==
    /\ LET after == Looper_stop(looper, host)
       IN  /\ looper' = after.obj
           /\ host' = after.host
    /\ op' = "Looper.stop"
    /\ log' = LastTwo(Append(log, "Looper.stop"))
    /\ UNCHANGED <<args, result, gen, timer, run, memo, deb, heap>>

TimerStart ==
    /\ \E id \in FreeIds(Timer_restart(timer, host).host) :
         LET after == Timer_start(timer, host, id)
         IN  /\ timer' = after.obj
             /\ host' = after.host
    /\ op' = "Timer.start"
    /\ log' = LastTwo(Append(log, "Timer.start"))
    /\ UNCHANGED <<args, result, gen, looper, run, memo, deb, heap>>

TimerStop ==
    /\ LET after == Timer_stop(timer, host)
       IN  /\ timer' = after.obj
           /\ host' = after.host
    /\ op' = "Timer.stop"
    /\ log' = LastTwo(Append(log, "Timer.stop"))
    /\ UNCHANGED <<args, result, gen, looper, run, memo, deb, heap>>

\* the host runs the callback of a registration that is due
HostFires ==
    /\ \E id \in Pending(host) :
         /\ host.timers[id].due <= host.now
         /\ host' = Fired(host, id)
    /\ op' = "fired"
    /\ UNCHANGED <<args, result, gen, log, looper, timer, run, memo, deb, heap>>

TimePasses ==
    /\ CanPass(host)
    /\ host' = Passed(host)
    /\ op' = "time"
    /\ UNCHANGED <<args, result, gen, log, looper, timer, run, memo, deb, heap>>

NextTimers ==
    \/ LooperStart
    \/ LooperStop
    \/ TimerStart
    \/ TimerStop
    \/ HostFires
    \/ TimePasses

SpecTimers == Init /\ [][NextTimers]_vars

\* the pending registrations that carry the object's callback
OwnedBy(o) == {id \in Pending(host) : host.timers[id].cb = o.f}

\* C15: a Looper, and likewise a Timer, never has more than one of its
\* registrations pending; right after start(), also after a start() right
\* after a start(), exactly one is pending, and right after stop() none.
C15_OneRegistration ==
    /\ Cardinality(OwnedBy(looper)) <= 1
    /\ Cardinality(OwnedBy(timer)) <= 1
    /\ op = "Looper.start" => Cardinality(OwnedBy(looper)) = 1
    /\ op = "Timer.start" => Cardinality(OwnedBy(timer)) = 1
    /\ op = "Looper.stop" => OwnedBy(looper) = {}
    /\ op = "Timer.stop" => OwnedBy(timer) = {}

\* start() twice in a row, with an id to spare for a second registration
C15_Witness ==
    /\ op = "Looper.start"
    /\ log = <<"Looper.start", "Looper.start">>
    /\ Cardinality(OwnedBy(looper)) = 1
    /\ FreeIds(host) # {}

(***************************************************************************)
(* cache.  f returns a promise; its k-th execution fulfils with k, so that *)
(* a value tells which execution produced it.  cached is the closure's     *)
(* variable (Null, or the value of the resolved promise it holds), pending *)
(* the executions of f whose promise has not settled, and yielded[c] what  *)
(* the promise returned by the c-th call has fulfilled with (Undefined     *)
(* while it is pending).                                                   *)
(***************************************************************************)
cache(f) == [f |-> f, cached |-> Null, execs |-> 0, pending |-> {}, yielded |-> <<>>]

\* () => cached || f().then(...)
cache_call(m) ==
    IF m.cached # Null
    THEN [m EXCEPT !.yielded = Append(@, [exec |-> 0, value |-> m.cached])]
    ELSE [m EXCEPT !.execs = @ + 1,
                   !.pending = @ \cup {m.execs + 1},
                   !.yielded = Append(@, [exec |-> m.execs + 1, value |-> Undefined])]

\* x => cached = Promise.resolve(x), run when execution k fulfils with x
cache_then(m, k, x) ==
    [m EXCEPT !.cached = x,
              !.pending = @ \ {k},
              !.yielded = [c \in DOMAIN @ |->
                              IF @[c].exec = k THEN [exec |-> k, value |-> x] ELSE @[c]]]

MakeCache ==
    /\ op = "idle"
    /\ memo' = cache([fn |-> "nth_execution"])
    /\ op' = "cache"
    /\ UNCHANGED <<args, result, gen, log, host, looper, timer, run, deb, heap>>

CallCached ==
    /\ op # "idle"
    /\ Len(memo.yielded) < MaxCalls
    /\ memo' = cache_call(memo)
    /\ op' = "call"
    /\ UNCHANGED <<args, result, gen, log, host, looper, timer, run, deb, heap>>

\* the promise of execution k fulfils and its then-callback runs
Settle ==
    /\ op # "idle"
    /\ \E k \in memo.pending : memo' = cache_then(memo, k, k)
    /\ op' = "settled"
    /\ UNCHANGED <<args, result, gen, log, host, looper, timer, run, deb, heap>>

NextCache ==
    \/ MakeCache
    \/ CallCached
    \/ Settle

SpecCache == Init /\ [][NextCache]_vars

\* C16: whatever calls are made to g = cache(f), also while an earlier
\* call's promise is pending, f is executed at most once and every settled
\* call has yielded the result of that one execution.
C16_CacheExecutesOnce ==
    op # "idle" =>
        /\ memo.execs <= 1
        /\ \A c \in DOMAIN memo.yielded : memo.yielded[c].value \in {Undefined, 1}

(***************************************************************************)
(* debounce.  deb is the closure (f, n and the variable i); log records,   *)
(* in the order they happen, the calls made to the debounced function and  *)
(* the invocations of f, each with its argument and the host's time.       *)
(***************************************************************************)
\* K1(a)(b): the thunk () => a(b)
K1(a, b) == Fn("K1", <<a, b>>)

debounce(f, n) == [f |-> f, n |-> n, i |-> Null]

\* if (i) clearTimeout(i)
debounce_clear(d, h) == IF d.i # Null THEN clearTimeout(h, d.i) ELSE h

\* a call that leaves the pending timeout alone
debounce_call_no_clear(d, h, x, id) ==
    [obj |-> [d EXCEPT !.i = id], host |-> setTimeout(h, id, K1(d.f, x), d.n)]

debounce_call(d, h, x, id) ==
    [obj |-> [d EXCEPT !.i = id],
     host |-> setTimeout(debounce_clear(d, h), id, K1(d.f, x), d.n)]

MakeDebounce ==
    /\ op = "idle"
    /\ \E n \in 1..MaxDelay : deb' = debounce([fn |-> "f"], n)
    /\ op' = "debounce"
    /\ UNCHANGED <<args, result, gen, log, host, looper, timer, run, memo, heap>>

Calls(events) == {j \in DOMAIN events : events[j].kind = "call"}

Invocations(events) == {j \in DOMAIN events : events[j].kind = "f"}

CallDebounced ==
    /\ op # "idle"
    /\ Cardinality(Calls(log)) < MaxBurst
    /\ \E x \in Elems : \E id \in FreeIds(debounce_clear(deb, host)) :
         LET after == debounce_call(deb, host, x, id)
         IN  /\ deb' = after.obj
             /\ host' = after.host
             /\ log' = Append(log, [kind |-> "call", x |-> x, at |-> host.now])
    /\ op' = "call"
    /\ UNCHANGED <<args, result, gen, looper, timer, run, memo, heap>>

\* the host runs a due thunk () => f(x)
DebounceFires ==
    /\ op # "idle"
    /\ \E id \in Pending(host) :
         /\ host.timers[id].due <= host.now
         /\ host' = Fired(host, id)
         /\ log' = Append(log, [kind |-> "f", x |-> host.timers[id].cb.a[2], at |-> host.now])
    /\ op' = "fired"
    /\ UNCHANGED <<args, result, gen, looper, timer, run, deb, memo, heap>>

DebounceTimePasses ==
    /\ op # "idle"
    /\ TimePasses

NextDebounce ==
    \/ MakeDebounce
    \/ CallDebounced
    \/ DebounceFires
    \/ DebounceTimePasses

SpecDebounce == Init /\ [][NextDebounce]_vars

\* the timeouts pending for the thunks debounce made
OwnedByDebounce == {id \in Pending(host) : host.timers[id].cb = K1(deb.f, host.timers[id].cb.a[2])}

\* the last call made before event j
LastCallBefore(events, j) ==
    LET before == {c \in Calls(events) : c < j}
    IN  CHOOSE c \in before : \A c2 \in before : c2 <= c

\* C17: at most one timeout of d is pending.  Every invocation of f comes
\* n time units after the last call made before it, with that call's
\* argument, and is the only invocation since that call; while the last
\* call has not led to an invocation its timeout is the one pending, due n
\* after that call, and once f has been invoked nothing is pending.
C17_DebounceLastCall ==
    op # "idle" =>
        /\ Cardinality(OwnedByDebounce) <= 1
        /\ \A j \in Invocations(log) :
             /\ \E c \in Calls(log) : c < j
             /\ LET c == LastCallBefore(log, j)
                IN  /\ log[j].x = log[c].x
                    /\ log[j].at = log[c].at + deb.n
                    /\ \A k \in Invocations(log) : ~(c < k /\ k < j)
        /\ log # <<>> =>
             IF log[Len(log)].kind = "call"
             THEN \E id \in Pending(host) :
                    /\ Pending(host) = {id}
                    /\ deb.i = id
                    /\ host.timers[id].cb = K1(deb.f, log[Len(log)].x)
                    /\ host.timers[id].due = log[Len(log)].at + deb.n
                    /\ host.timers[id].due >= host.now
             ELSE Pending(host) = {}

\* two calls less than n apart, then f invoked once, with the second argument
C17_Witness ==
    /\ op = "fired"
    /\ Len(log) = 3
    /\ log[1].kind = "call" /\ log[2].kind = "call" /\ log[3].kind = "f"
    /\ log[2].at > log[1].at
    /\ log[2].at < log[1].at + deb.n
    /\ log[1].x # log[2].x
    /\ log[3].x = log[2].x
    /\ log[3].at = log[2].at + deb.n

(***************************************************************************)
(* JavaScript values for get, set and add: null, undefined, numbers,       *)
(* strings, arrays, plain objects (a function from property keys) and Maps *)
(* (the entries <<key, value>> in insertion order).  Array indices count   *)
(* from 0 as in the source.                                                *)
(***************************************************************************)
JsNull == [t |-> "null", v |-> 0]

JsUndefined == [t |-> "undefined", v |-> 0]

Str(s) == [t |-> "string", v |-> s]

Obj(props) == [t |-> "object", v |-> props]

MapOf(entries) == [t |-> "map", v |-> entries]

\* x === null || x === undefined
Nullish(x) == x.t \in {"null", "undefined"}

\* the property key a key value becomes in x[k]
ToPropertyKey(k) == IF k.t = "number" THEN NumberToString(k.v) ELSE k.v

\* Map.prototype.get: the value of the entry whose key is k, else undefined
MapGet(x, k) ==
    IF \E j \in DOMAIN x.v : x.v[j][1] = k
    THEN x.v[CHOOSE j \in DOMAIN x.v : x.v[j][1] = k][2]
    ELSE JsUndefined

\* x[k] for x that is neither null nor undefined
PropertyOf(x, k) ==
    CASE x.t = "array" ->
           IF k.t = "number" /\ k.v >= 0 /\ k.v < Len(x.v) THEN x.v[k.v + 1] ELSE JsUndefined
      [] x.t = "object" ->
           IF ToPropertyKey(k) \in DOMAIN x.v THEN x.v[ToPropertyKey(k)] ELSE JsUndefined
      [] OTHER -> JsUndefined

\* a get_ without the test for null and undefined
get__unguarded(k, x) ==
    IF Nullish(x) THEN JsUndefined
    ELSE IF x.t = "map" THEN MapGet(x, k) ELSE PropertyOf(x, k)

get_(k, x) ==
    IF Nullish(x) THEN JsNull
    ELSE IF x.t = "map" THEN MapGet(x, k) ELSE PropertyOf(x, k)

\* ks.reduce(Cu(get_), x)
RECURSIVE get_reduce(_, _)
get_reduce(ks, acc) ==
    IF ks = <<>> THEN acc ELSE get_reduce(Tail(ks), get_(Head(ks), acc))

get(ks, x) == IF Len(ks) = 1 THEN get_(ks[1], x) ELSE get_reduce(ks, x)

LookupKeys == {Num(0), Str("value"), Str("yo")}

Leaves == {JsNull, JsUndefined} \cup Numbers

\* the arrays, objects and Maps with at most one element drawn from S
ContainersOf(S) ==
    {Arr(<<>>), Obj(EmptyObject), MapOf(<<>>)}
      \cup {Arr(<<e>>) : e \in S}
      \cup {Obj("value" :> e) : e \in S}
      \cup {MapOf(<<(<<Str("yo"), e>>)>>) : e \in S}

Values1 == Leaves \cup ContainersOf(Leaves)

Values2 == Leaves \cup ContainersOf(Values1)

CallGet ==
    /\ op = "idle"
    /\ \E ks \in SeqsUpTo(LookupKeys, MaxKeys) \ {<<>>} : \E x \in Values2 :
         /\ args' = [ks |-> ks, x |-> x]
         /\ result' = get(ks, x)
    /\ op' = "get"
    /\ UNCHANGED <<gen, objects>>

\* the value reached after the first i keys, stopping at null or undefined
RECURSIVE Path(_, _, _)
Path(ks, x, i) ==
    IF i = 0 THEN x
    ELSE LET p == Path(ks, x, i - 1)
         IN  IF Nullish(p) THEN p
             ELSE IF p.t = "map" THEN MapGet(p, ks[i]) ELSE PropertyOf(p, ks[i])

\* x, or the result of a lookup before the last one, is null or undefined
SomeNullish(ks, x) == \E i \in 0..(Len(ks) - 1) : Nullish(Path(ks, x, i))

\* C18: get with two or more keys looks the keys up left to right, each in
\* the result of the lookup before it, and is null as soon as x or the
\* result of a lookup before the last is null or undefined;
\* get(0,'value')([]) is null and get(0,'value')([{value:1}]) is 1.
C18_GetShortCircuits ==
    (op = "get" /\ Len(args.ks) >= 2) =>
        /\ result = IF SomeNullish(args.ks, args.x)
                    THEN JsNull
                    ELSE Path(args.ks, args.x, Len(args.ks))
        /\ (args.ks = <<Num(0), Str("value")>> /\ args.x = Arr(<<>>)) => result = JsNull
        /\ (args.ks = <<Num(0), Str("value")>> /\ args.x = Arr(<<Obj("value" :> Num(1))>>))
             => result = Num(1)

\* three keys, the second lookup yields undefined
C18_Witness ==
    /\ op = "get"
    /\ Len(args.ks) = 3
    /\ ~Nullish(args.x)
    /\ ~Nullish(Path(args.ks, args.x, 1))
    /\ Path(args.ks, args.x, 2) = JsUndefined
    /\ result = JsNull

(***************************************************************************)
(* set.  Objects live in the heap, a sequence of arrays, plain objects and *)
(* Maps; a target is null, undefined or a reference to one of them.        *)
(***************************************************************************)
Ref(a) == [t |-> "ref", v |-> a]

\* xs[i] = v on an array: elements between the old end and i read undefined
ArraySet(xs, i, v) ==
    IF i < Len(xs) THEN [xs EXCEPT ![i + 1] = v]
    ELSE xs \o [j \in 1..(i - Len(xs)) |-> JsUndefined] \o <<v>>

\* Map.prototype.set: the entry of key k gets value v, a new key goes last
MapSet(entries, k, v) ==
    IF \E j \in DOMAIN entries : entries[j][1] = k
    THEN [j \in DOMAIN entries |-> IF entries[j][1] = k THEN <<k, v>> ELSE entries[j]]
    ELSE Append(entries, <<k, v>>)

\* o => { ... }: the heap after the function handed to tap has run
set_write(k, v, o, h) ==
    IF Nullish(o) THEN h
    ELSE IF h[o.v].t = "map" THEN [h EXCEPT ![o.v] = MapOf(MapSet(@.v, k, v))]
    ELSE IF h[o.v].t = "array" THEN [h EXCEPT ![o.v] = Arr(ArraySet(@.v, k.v, v))]
    ELSE [h EXCEPT ![o.v] = Obj((ToPropertyKey(k) :> v) @@ @.v)]

\* a set that writes to a copy of the target and returns the copy
set_copy(k, v, o, h) ==
    IF Nullish(o) THEN [heap |-> h, returned |-> o]
    ELSE [heap |-> set_write(k, v, Ref(Len(h) + 1), Append(h, h[o.v])),
          returned |-> Ref(Len(h) + 1)]

\* set(k)(v)(o): tap runs the write and returns o
set(k, v, o, h) == [heap |-> set_write(k, v, o, h), returned |-> o]

SetKeys == {Num(0), Num(1), Str("value"), Str("yo")}

Cells == ContainersOf(Leaves)

Targets(h) == {JsNull, JsUndefined} \cup {Ref(a) : a \in DOMAIN h}

\* an array takes an index
Settable(h, o, k) == (~Nullish(o) /\ h[o.v].t = "array") => k.t = "number"

CallSet ==
    /\ op = "idle"
    /\ \E c1 \in Cells : \E c2 \in Cells : \E o \in Targets(<<c1, c2>>) :
       \E k \in SetKeys : \E v \in Leaves :
         /\ Settable(<<c1, c2>>, o, k)
         /\ args' = [k |-> k, v |-> v, o |-> o, heap |-> <<c1, c2>>]
         /\ heap' = set(k, v, o, <<c1, c2>>).heap
         /\ result' = set(k, v, o, <<c1, c2>>).returned
    /\ op' = "set"
    /\ UNCHANGED <<gen, log, host, looper, timer, run, memo, deb>>

\* two keys that name the same entry of a target of kind t
SameKey(t, k1, k2) == IF t = "object" THEN ToPropertyKey(k1) = ToPropertyKey(k2) ELSE k1 = k2

\* C19: set(k)(v)(o) returns the very target o.  For an object, array or Map
\* target get(k)(o) is v afterwards, every other key of o reads as before
\* and no other object changes; for a null or undefined target nothing is
\* written and the target is returned.
C19_SetWritesOneKey ==
    op = "set" =>
        /\ result = args.o
        /\ Len(heap) = Len(args.heap)
        /\ Nullish(args.o) => heap = args.heap
        /\ ~Nullish(args.o) =>
             /\ get(<<args.k>>, heap[args.o.v]) = args.v
             /\ heap[args.o.v].t = args.heap[args.o.v].t
             /\ \A k2 \in SetKeys \cup LookupKeys :
                  ~SameKey(heap[args.o.v].t, k2, args.k) =>
                      get(<<k2>>, heap[args.o.v]) = get(<<k2>>, args.heap[args.o.v])
             /\ \A a \in DOMAIN heap : a # args.o.v => heap[a] = args.heap[a]

\* a key is added to a target that keeps another key, next to an equal object
C19_Witness ==
    /\ op = "set"
    /\ ~Nullish(args.o)
    /\ args.heap[1] = args.heap[2]
    /\ heap[1] # heap[2]
    /\ \E k2 \in SetKeys :
         /\ k2 # args.k
         /\ ~Nullish(get(<<k2>>, args.heap[args.o.v]))
         /\ get(<<k2>>, heap[args.o.v]) = get(<<k2>>, args.heap[args.o.v])
    /\ get(<<args.k>>, args.heap[args.o.v]) # args.v
    /\ get(<<args.k>>, heap[args.o.v]) = args.v

(***************************************************************************)
(* add and addr on JavaScript values                                       *)
(***************************************************************************)
Bool(b) == [t |-> "boolean", v |-> b]

\* for (const [k, v] of b.entries()) n.set(k, v)
RECURSIVE MapSetAll(_, _)
MapSetAll(n, entries) ==
    IF entries = <<>> THEN n
    ELSE MapSetAll(MapSet(n, Head(entries)[1], Head(entries)[2]), Tail(entries))

\* add(a)(b) with its switch over a.constructor
add_switch(a, b) ==
    IF Nullish(a) \/ Nullish(b) \/ a.t # b.t THEN JsNull
    ELSE CASE a.t = "number" -> Num(add(a.v, b.v))
           [] a.t = "string" -> Str(a.v \o b.v)
           [] a.t = "array" -> Arr(a.v \o b.v)
           [] a.t = "map" -> MapOf(MapSetAll(a.v, b.v))
           [] a.t = "object" -> Obj(b.v @@ a.v)
           [] OTHER -> IF isIterable(a) /\ isIterable(b) THEN Arr(a.v \o b.v) ELSE JsNull

\* an addr that does not swap its operands
addr_unflipped(a, b) == add_switch(a, b)

\* addr = C(add): C(a)(b)(c) = a(c)(b)
addr(a, b) == add_switch(b, a)

Operands ==
    {JsNull, JsUndefined, Bool(TRUE), Bool(FALSE)}
      \cup Numbers
      \cup {Str(""), Str("yo"), Str("lo")}
      \cup {Arr(xs) : xs \in SeqsUpTo(Numbers, MaxWidth)}
      \cup {Obj(EmptyObject), Obj("a" :> Num(1)), Obj("b" :> Num(2)), Obj("a" :> Num(2))}
      \cup {MapOf(<<>>), MapOf(<<(<<Str("yo"), Num(1)>>)>>), MapOf(<<(<<Str("yo"), Num(2)>>)>>)}

CallAdd ==
    /\ op = "idle"
    /\ \E a \in Operands : \E b \in Operands :
         /\ args' = [a |-> a, b |-> b]
         /\ result' = add_switch(a, b)
    /\ op' = "add"
    /\ UNCHANGED <<gen, objects>>

CallAddr ==
    /\ op = "idle"
    /\ \E a \in Operands : \E b \in Operands :
         /\ args' = [a |-> a, b |-> b]
         /\ result' = addr(a, b)
    /\ op' = "addr"
    /\ UNCHANGED <<gen, objects>>

NextValues ==
    \/ CallGet
    \/ CallSet
    \/ CallAdd
    \/ CallAddr

SpecValues == Init /\ [][NextValues]_vars

\* C20: add(a)(b) and addr(a)(b) are null when an operand is null or
\* undefined or the operands are of different kinds; add(a)(b) is the sum of
\* two numbers and a followed by b for two strings or two arrays; addr(a)(b)
\* is add(b)(a), so that addr('yo')('lo') is 'loyo'.
C20_AddSameKind ==
    op \in {"add", "addr"} =>
        /\ (Nullish(args.a) \/ Nullish(args.b) \/ args.a.t # args.b.t) => result = JsNull
        /\ (op = "add" /\ args.a.t = args.b.t) =>
             /\ args.a.t = "number" => result = Num(args.a.v + args.b.v)
             /\ args.a.t = "string" => result = Str(args.a.v \o args.b.v)
             /\ args.a.t = "array" =>
                  /\ result.t = "array"
                  /\ Len(result.v) = Len(args.a.v) + Len(args.b.v)
                  /\ SubSeq(result.v, 1, Len(args.a.v)) = args.a.v
                  /\ SubSeq(result.v, Len(args.a.v) + 1, Len(result.v)) = args.b.v
        /\ op = "addr" =>
             /\ result = add_switch(args.b, args.a)
             /\ (args.a = Str("yo") /\ args.b = Str("lo")) => result = Str("loyo")
             /\ (args.a.t = "array" /\ args.b.t = "array") => result = Arr(args.b.v \o args.a.v)

\* addr on two different non-empty arrays: the second operand comes first
C20_Witness ==
    /\ op = "addr"
    /\ args.a.t = "array" /\ args.b.t = "array"
    /\ args.a.v # <<>> /\ args.b.v # <<>>
    /\ args.a # args.b
    /\ result = Arr(args.b.v \o args.a.v)
    /\ result # Arr(args.a.v \o args.b.v)

(***************************************************************************)
(* equal.  Operands are primitives or references into the heap, so that    *)
(* two objects of the same shape are still two objects for ===.            *)
(***************************************************************************)
SetOf(members) == [t |-> "set", v |-> members]

\* a === b: primitives by value, objects by reference
StrictEquals(a, b) == a = b

\* the truthiness of a value in a && b
Truthy(x) == x \notin {JsNull, JsUndefined, Num(0), Str(""), Bool(FALSE)}

\* what x.constructor tells apart
ConstructorOf(x, h) == IF x.t = "ref" THEN h[x.v].t ELSE x.t

\* b.has(k) and b.get(k) on a Map's entries
MapHas(entries, k) == \E j \in DOMAIN entries : entries[j][1] = k

\* b.has(x) on a Set's members
SetHas(members, x) == \E j \in DOMAIN members : members[j] = x

\* o[k] for an own key k of another object of the same kind
OwnOrUndefined(c, k) == IF k \in DOMAIN c.v THEN c.v[k] ELSE JsUndefined

RECURSIVE equal(_, _, _)
equal(a, b, h) ==
    IF StrictEquals(a, b) THEN TRUE
    ELSE IF ~(Truthy(a) /\ Truthy(b)) THEN FALSE
    ELSE IF ConstructorOf(a, h) # ConstructorOf(b, h) THEN FALSE
    ELSE IF a.t # "ref" THEN FALSE
    ELSE LET ca == h[a.v]
             cb == h[b.v]
         IN  CASE ca.t = "map" ->
                    /\ Len(ca.v) = Len(cb.v)
                    /\ \A j \in DOMAIN ca.v :
                         /\ MapHas(cb.v, ca.v[j][1])
                         /\ StrictEquals(MapGet(cb, ca.v[j][1]), ca.v[j][2])
               [] ca.t = "set" ->
                    /\ Len(ca.v) = Len(cb.v)
                    /\ \A j \in DOMAIN ca.v : SetHas(cb.v, ca.v[j])
               [] OTHER ->
                    /\ Cardinality(DOMAIN ca.v) = Cardinality(DOMAIN cb.v)
                    /\ \A k \in DOMAIN ca.v : equal(ca.v[k], OwnOrUndefined(cb, k), h)

\* objects that hold primitives
EqualCells1 ==
    {Arr(<<>>), Arr(<<Num(1)>>), Obj(EmptyObject), Obj("a" :> Num(1)),
     Obj("a" :> JsUndefined), Obj("b" :> Num(1)),
     MapOf(<<(<<Str("k"), Num(1)>>)>>), SetOf(<<Num(1)>>)}

\* objects that hold one of the objects at addresses 1 and 2
EqualCells2 ==
    UNION {{Arr(<<r>>), Obj("a" :> r), MapOf(<<(<<Str("k"), r>>)>>), SetOf(<<r>>)} :
             r \in {Ref(1), Ref(2)}}

EqualOperands == {Num(1), Num(2), JsUndefined} \cup {Ref(a) : a \in 1..4}

CallEqual ==
    /\ op = "idle"
    /\ \E c1 \in EqualCells1 : \E c2 \in EqualCells1 :
       \E c3 \in EqualCells2 : \E c4 \in EqualCells2 :
       \E a \in EqualOperands : \E b \in EqualOperands :
         /\ heap' = <<c1, c2, c3, c4>>
         /\ args' = [a |-> a, b |-> b]
         /\ result' = equal(a, b, <<c1, c2, c3, c4>>)
    /\ op' = "equal"
    /\ UNCHANGED <<gen, log, host, looper, timer, run, memo, deb>>

NextEqual == CallEqual

SpecEqual == Init /\ [][NextEqual]_vars

\* deep structural equality: identical, or objects of the same kind with the
\* same keys and, key by key, deeply equal values (Sets: the same members)
RECURSIVE DeepEqual(_, _, _)
DeepEqual(a, b, h) ==
    IF a = b THEN TRUE
    ELSE IF ~(a.t = "ref" /\ b.t = "ref") THEN FALSE
    ELSE IF h[a.v].t # h[b.v].t THEN FALSE
    ELSE LET ca == h[a.v]
             cb == h[b.v]
         IN  CASE ca.t = "map" ->
                    /\ {ca.v[j][1] : j \in DOMAIN ca.v} = {cb.v[j][1] : j \in DOMAIN cb.v}
                    /\ \A j \in DOMAIN ca.v :
                         DeepEqual(ca.v[j][2], MapGet(cb, ca.v[j][1]), h)
               [] ca.t = "set" ->
                    {ca.v[j] : j \in DOMAIN ca.v} = {cb.v[j] : j \in DOMAIN cb.v}
               [] OTHER ->
                    /\ DOMAIN ca.v = DOMAIN cb.v
                    /\ \A k \in DOMAIN ca.v : DeepEqual(ca.v[k], cb.v[k], h)

\* C21: equal(a, b) is deep structural equality, values held inside a Map
\* included.
C21_EqualIsDeep == op = "equal" => result = DeepEqual(args.a, args.b, heap)

\* C29: equal(a, a) is true, equal(a, b) is equal(b, a), and two objects or
\* arrays that equal holds equal have the same set of keys.
C29_EqualIsEquivalence ==
    op = "equal" =>
        /\ equal(args.a, args.a, heap)
        /\ result = equal(args.b, args.a, heap)
        /\ (result /\ args.a.t = "ref" /\ args.b.t = "ref"
              /\ heap[args.a.v].t \in {"object", "array"})
             => DOMAIN heap[args.a.v].v = DOMAIN heap[args.b.v].v

(***************************************************************************)
(* count = foldr(...)({}): the object literal is evaluated once, when the  *)
(* module is loaded, and is the accumulator every call starts from and     *)
(* returns.  It is the object at address 1; args lists the sequences       *)
(* counted so far.                                                         *)
(***************************************************************************)
LoadCount ==
    /\ op = "idle"
    /\ heap' = <<Obj(EmptyObject)>>
    /\ op' = "loaded"
    /\ UNCHANGED <<args, result, gen, log, host, looper, timer, run, memo, deb>>

\* count(xs): foldr mutates and returns the accumulator it was given
count(h, xs) ==
    [heap |-> [h EXCEPT ![1] = Obj(foldr(Fn("count_step", Null), @.v, xs))],
     returned |-> Ref(1)]

CallCount ==
    /\ op \in {"loaded", "count"}
    /\ Len(args) < MaxRounds
    /\ \E xs \in Arrays :
         /\ heap' = count(heap, xs).heap
         /\ result' = count(heap, xs).returned
         /\ args' = Append(args, xs)
    /\ op' = "count"
    /\ UNCHANGED <<gen, log, host, looper, timer, run, memo, deb>>

NextCount ==
    \/ LoadCount
    \/ CallCount

SpecCount == Init /\ [][NextCount]_vars

\* the mapping from each distinct element of xs to its number of occurrences
Occurrences(xs) ==
    [k \in {NumberToString(xs[j]) : j \in DOMAIN xs} |->
        Cardinality({j \in DOMAIN xs : NumberToString(xs[j]) = k})]

\* C22: whatever calls came before, count(xs) returns the mapping from the
\* distinct elements of that xs to their numbers of occurrences in that xs.
C22_CountOwnSequence ==
    op = "count" => heap[result.v].v = Occurrences(args[Len(args)])

(***************************************************************************)
(* sum, len, average.  A sequence is an array, a Set or a generator; the   *)
(* generator hands out each element once (pos counts the ones taken).  The *)
(* quotient b / a is kept as the fraction it is.                           *)
(***************************************************************************)
Sequence(kind, xs) == [kind |-> kind, xs |-> xs, pos |-> 0]

\* the elements a for-of over x still produces
Remaining(x) == IF x.kind = "generator" THEN SubSeq(x.xs, x.pos + 1, Len(x.xs)) ELSE x.xs

\* x after a for-of has run over it to the end
Drained(x) == IF x.kind = "generator" THEN [x EXCEPT !.pos = Len(x.xs)] ELSE x

\* sum = foldr(add)(0)
sum(x) == foldr(Fn("add", Null), 0, Remaining(x))

\* len: x.length, x.size, or the count of a loop over an iterable
len(x) == IF x.kind \in {"array", "set"} THEN Len(x.xs) ELSE Len(Remaining(x))

\* div = a => b => b / a
div(a, b) == [num |-> b, den |-> a]

\* average = S(div)(len)(sum): S(a)(b)(c)(d) = a(b(d))(c(d)), so len(d)
\* runs before sum(d)
average(x) == div(len(x), sum(Drained(x)))

AverageElems == 0..(MaxElem + 1)

\* sequences without a repeated element, as a Set holds them
Distinct(xs) == \A i, j \in DOMAIN xs : xs[i] = xs[j] => i = j

CallAverage ==
    /\ op = "idle"
    /\ \E kind \in {"array", "set", "generator"} :
       \E xs \in SeqsUpTo(AverageElems, MaxLen) \ {<<>>} :
         /\ kind = "set" => Distinct(xs)
         /\ args' = Sequence(kind, xs)
         /\ result' = average(Sequence(kind, xs))
    /\ op' = "average"
    /\ UNCHANGED <<gen, objects>>

NextAverage == CallAverage

SpecAverage == Init /\ [][NextAverage]_vars

\* C23: for a non-empty array, Set or single-use generator of numbers,
\* average(xs) is the sum of the elements xs produces divided by their number.
C23_AverageOfProduced ==
    op = "average" =>
        /\ result.den = Len(args.xs)
        /\ result.num * Len(args.xs) = foldr(Fn("add", Null), 0, args.xs) * result.den

(***************************************************************************)
(* endsWith, endsWithAny.  A string is the sequence of its characters.     *)
(***************************************************************************)
\* String.prototype.endsWith: s.endsWith(suffix)
String_endsWith(s, suffix) ==
    /\ Len(suffix) <= Len(s)
    /\ SubSeq(s, Len(s) - Len(suffix) + 1, Len(s)) = suffix

\* endsWith = a => b => b.endsWith(b)
endsWith(a, b) == String_endsWith(b, b)

\* endsWithAny = xs => x => xs.map(endsWith).some(T(x))
endsWithAny(xs, x) == \E i \in DOMAIN xs : endsWith(xs[i], x)

Strings == SeqsUpTo({"a", "b"}, MaxLen)

CallEndsWith ==
    /\ op = "idle"
    /\ \E a \in Strings : \E b \in Strings :
         /\ args' = [a |-> a, b |-> b]
         /\ result' = endsWith(a, b)
    /\ op' = "endsWith"
    /\ UNCHANGED <<gen, objects>>

CallEndsWithAny ==
    /\ op = "idle"
    /\ \E xs \in SeqsUpTo(Strings, MaxTuple) : \E x \in Strings :
         /\ args' = [xs |-> xs, x |-> x]
         /\ result' = endsWithAny(xs, x)
    /\ op' = "endsWithAny"
    /\ UNCHANGED <<gen, objects>>

NextStrings ==
    \/ CallEndsWith
    \/ CallEndsWithAny

SpecStrings == Init /\ [][NextStrings]_vars

\* C24: endsWith(a)(b) is true exactly when b ends with a, and
\* endsWithAny(xs)(x) exactly when x ends with some member of xs.
C24_EndsWithSuffix ==
    /\ op = "endsWith" => (result <=> String_endsWith(args.b, args.a))
    /\ op = "endsWithAny" =>
         (result <=> \E i \in DOMAIN args.xs : String_endsWith(args.x, args.xs[i]))

(***************************************************************************)
(* b = batch(f, a, n) applied twice.  The parameter a is the one variable  *)
(* both applications assign, so run keeps it next to the two runs; wait[j] *)
(* is the id of the continuation run j handed to next_tick.  A tick runs   *)
(* to its next_tick or to its end before anything else runs.               *)
(***************************************************************************)
MakeBatch ==
    /\ op = "idle"
    /\ \E f \in Combiners, a \in Seeds, n \in 1..MaxChunk, xs1 \in Arrays, xs2 \in Arrays :
         /\ args' = [f |-> f, a |-> a, n |-> n, xs |-> <<xs1, xs2>>]
         /\ run' = [a |-> a, runs |-> <<>>, wait |-> <<>>]
    /\ op' = "batches"
    /\ UNCHANGED <<result, gen, log, host, looper, timer, memo, deb, heap>>

Ticking(r) == {j \in DOMAIN r.runs : r.runs[j].pc = "tick"}

\* b(xs): the next application of b, its executor entering tick
ApplyBatch ==
    /\ op = "batches"
    /\ Ticking(run) = {}
    /\ Len(run.runs) < Len(args.xs)
    /\ run' = [run EXCEPT
                 !.runs = Append(@, batch(args.f, run.a, args.n, args.xs[Len(run.runs) + 1])),
                 !.wait = Append(@, Null)]
    /\ UNCHANGED <<op, args, result, gen, log, host, looper, timer, memo, deb, heap>>

\* a round of the running tick, reading and assigning the shared a
SharedTickStep ==
    /\ op = "batches"
    /\ \E j \in Ticking(run) : \E id \in FreeIds(host) :
         LET after == tick_step([run.runs[j] EXCEPT !.a = run.a], host, id)
         IN  /\ run' = [run EXCEPT !.a = after.run.a,
                                   !.runs[j] = after.run,
                                   !.wait[j] = IF after.run.pc = "yielded" THEN id ELSE Null]
             /\ host' = after.host
    /\ UNCHANGED <<op, args, result, gen, log, looper, timer, memo, deb, heap>>

\* the host runs the continuation of run j
SharedRunContinuation ==
    /\ op = "batches"
    /\ Ticking(run) = {}
    /\ \E j \in DOMAIN run.runs :
         /\ run.runs[j].pc = "yielded"
         /\ run.wait[j] \in Pending(host)
         /\ host.timers[run.wait[j]].due <= host.now
         /\ host' = Fired(host, run.wait[j])
         /\ run' = [run EXCEPT !.runs[j] = tick(@), !.wait[j] = Null]
    /\ UNCHANGED <<op, args, result, gen, log, looper, timer, memo, deb, heap>>

NextBatchShared ==
    \/ MakeBatch
    \/ ApplyBatch
    \/ SharedTickStep
    \/ SharedRunContinuation

SpecBatchShared == Init /\ [][NextBatchShared]_vars

\* C25: each of the two promises b(xs1) and b(xs2) resolves with the fold of
\* its own sequence from the seed, however the two runs interleave.
C25_BatchRunsIndependent ==
    op = "batches" =>
        \A j \in DOMAIN run.runs :
            run.runs[j].promise.state = "fulfilled" =>
                run.runs[j].promise.value = foldr(args.f, args.a, args.xs[j])

(***************************************************************************)
(* A reducer applied twice.  partition, objectify and find_many hand foldr *)
(* a seed built when the reducer is made; foldr returns that very object.  *)
(* run is the closure (its fs and its seed), heap[1] the seed object, args *)
(* the sequences it was applied to, and log what each call returned: the   *)
(* reference, and the contents at the time of the return.                  *)
(***************************************************************************)
\* objectify(f)
objectify(f) == [fs |-> <<f>>, seed |-> EmptyObject]

\* find_many(...fs)
find_many(fs) == [fs |-> fs, seed |-> construct(Fn("K", Null), Len(fs))]

\* find_many's x => tap(xs => ...), which also assigns fs[i]
find_many_step(c, x) ==
    LET i == findIndex(c.fs, x)
    IN  IF i = -1 THEN c
        ELSE [fs |-> [c.fs EXCEPT ![i + 1] = Fn("K", FALSE)],
              seed |-> [c.seed EXCEPT ![i + 1] = x]]

RECURSIVE find_many_apply(_, _)
find_many_apply(c, xs) ==
    IF xs = <<>> THEN c ELSE find_many_apply(find_many_step(c, Head(xs)), Tail(xs))

\* the reducer of the given kind, as made
Reducer(kind, fs) ==
    [kind |-> kind] @@
    (CASE kind = "partition" -> partition(fs)
       [] kind = "objectify" -> objectify(fs[1])
       [] kind = "find_many" -> find_many(fs))

\* the closure after it has been applied to xs; its seed is what was returned
Applied(c, xs) ==
    CASE c.kind = "partition" -> [c EXCEPT !.seed = partition_apply(c, xs)]
      [] c.kind = "objectify" ->
           [c EXCEPT !.seed = foldr(Fn("objectify_step", c.fs[1]), c.seed, xs)]
      [] c.kind = "find_many" -> [kind |-> c.kind] @@ find_many_apply(c, xs)

MakeReducer ==
    /\ op = "idle"
    /\ \/ \E fs \in SeqsUpTo(Preds, MaxFns) \ {<<>>} : run' = Reducer("partition", fs)
       \/ \E f \in Discriminators : run' = Reducer("objectify", <<f>>)
       \/ \E fs \in SeqsUpTo(Preds, MaxFns) \ {<<>>} : run' = Reducer("find_many", fs)
    /\ heap' = <<run'.seed>>
    /\ args' = [kind |-> run'.kind, fs |-> run'.fs, xs |-> <<>>]
    /\ op' = "made"
    /\ UNCHANGED <<result, gen, log, host, looper, timer, memo, deb>>

ApplyReducer ==
    /\ op \in {"made", "applied"}
    /\ Len(log) < MaxRounds
    /\ \E xs \in Arrays :
         /\ run' = Applied(run, xs)
         /\ heap' = <<run'.seed>>
         /\ result' = Ref(1)
         /\ args' = [args EXCEPT !.xs = Append(@, xs)]
         /\ log' = Append(log, [ref |-> Ref(1), value |-> run'.seed])
    /\ op' = "applied"
    /\ UNCHANGED <<gen, host, looper, timer, memo, deb>>

NextReuse ==
    \/ MakeReducer
    \/ ApplyReducer

SpecReuse == Init /\ [][NextReuse]_vars

\* C26: when a reducer made by partition, objectify or find_many is applied
\* to two sequences in succession, each result is what a fresh reducer gives
\* for that call's sequence, the two results are distinct containers, and
\* the second call leaves the container returned by the first as it was.
C26_ReducerReusable ==
    op = "applied" =>
        \A j \in DOMAIN log :
            /\ log[j].value = Applied(Reducer(args.kind, args.fs), args.xs[j]).seed
            /\ heap[log[j].ref.v] = log[j].value
            /\ \A k \in DOMAIN log : k # j => log[k].ref # log[j].ref

(***************************************************************************)
(* change.  run is the closure c = change(f, ...keys) with its variable    *)
(* keys; the j-th call is made on a new object, kept at address j of the   *)
(* heap, and args lists the objects as they were handed over.              *)
(***************************************************************************)
\* the number that undefined * a is
NaN == -3

\* f(x[k]), where x[k] is undefined for a key x does not have
transform(f, v) == IF v = Undefined /\ f.fn = "mult" THEN NaN ELSE call1(f, v)

PropertyNames == <<"a", "b">>

\* Object.keys(x), in the order the properties were added
Object_keys(x) == SelectSeq(PropertyNames, LAMBDA k : k \in DOMAIN x)

\* change(f, ...keys)
change(f, keys) == [f |-> f, keys |-> keys]

\* keys.forEach(k => x[k] = f(x[k]))
RECURSIVE forEach_assign(_, _, _)
forEach_assign(f, keys, x) ==
    IF keys = <<>> THEN x
    ELSE LET k == Head(keys)
             v == IF k \in DOMAIN x THEN x[k] ELSE Undefined
         IN  forEach_assign(f, Tail(keys), (k :> transform(f, v)) @@ x)

\* c(x): the closure and the object afterwards
change_call(c, x) ==
    LET keys == IF Len(c.keys) = 0 THEN Object_keys(x) ELSE c.keys
    IN  [c |-> [c EXCEPT !.keys = keys], x |-> forEach_assign(c.f, keys, x)]

Transformers == {Fn("mult", 2), Fn("K", 0)}

PlainObjects == UNION {[D -> Elems] : D \in SUBSET {"a", "b"}}

MakeChange ==
    /\ op = "idle"
    /\ \E f \in Transformers : \E keys \in SeqsUpTo({"a", "b"}, MaxTuple) :
         /\ run' = change(f, keys)
         /\ args' = [f |-> f, keys |-> keys, xs |-> <<>>]
    /\ op' = "change"
    /\ UNCHANGED <<result, gen, log, host, looper, timer, memo, deb, heap>>

CallChange ==
    /\ op \in {"change", "changed"}
    /\ Len(heap) < MaxRounds
    /\ \E x \in PlainObjects :
         /\ run' = change_call(run, x).c
         /\ heap' = Append(heap, change_call(run, x).x)
         /\ result' = Ref(Len(heap) + 1)
         /\ args' = [args EXCEPT !.xs = Append(@, x)]
    /\ op' = "changed"
    /\ UNCHANGED <<gen, log, host, looper, timer, memo, deb>>

NextChange ==
    \/ MakeChange
    \/ CallChange

SpecChange == Init /\ [][NextChange]_vars

\* C27: every call c(x) returns x itself; for c = change(f) made without
\* keys it leaves x with the properties it had, each value v replaced by
\* f(v); for c made with keys it leaves every property not named as it was.
C27_ChangeOwnProperties ==
    op = "changed" =>
        LET j == Len(args.xs)
            before == args.xs[j]
            after == heap[j]
        IN  /\ result = Ref(j)
            /\ args.keys = <<>> =>
                 /\ DOMAIN after = DOMAIN before
                 /\ \A k \in DOMAIN before : after[k] = transform(args.f, before[k])
            /\ args.keys # <<>> =>
                 \A k \in DOMAIN before :
                     (\A i \in DOMAIN args.keys : args.keys[i] # k) => after[k] = before[k]

(***************************************************************************)
(* combinations over arrays and generators.  _combine walks first(tails)   *)
(* with a for-of and, for each of its elements, walks the tails again; the *)
(* sequences are threaded through the walk so that what a generator has    *)
(* handed out stays handed out.                                            *)
(***************************************************************************)
\* the tuples _combine(head, tails) yields, and the sequences afterwards
RECURSIVE _combine_walk(_, _)
_combine_walk(head, tails) ==
    IF Len(tails) = 0 THEN [out |-> <<head>>, tails |-> tails]
    ELSE LET elems == Remaining(first(tails))
             st[k \in 0..Len(elems)] ==
                 IF k = 0 THEN [out |-> <<>>, tails |-> tail(tails)]
                 ELSE LET inner == _combine_walk(Append(head, elems[k]), st[k - 1].tails)
                      IN  [out |-> st[k - 1].out \o inner.out, tails |-> inner.tails]
         IN  [out |-> st[Len(elems)].out,
              tails |-> <<Drained(first(tails))>> \o st[Len(elems)].tails]

\* function* combinations(...xs): everything it yields
combinations_of(xs) == _combine_walk(<<>>, xs).out

CallCombinationsOf ==
    /\ op = "idle"
    /\ \E xs \in SeqsUpTo(SeqsUpTo(Elems, MaxCombLen), MaxTuple) :
       \E kinds \in [DOMAIN xs -> {"array", "generator"}] :
         /\ args' = [j \in DOMAIN xs |-> Sequence(kinds[j], xs[j])]
         /\ result' = combinations_of([j \in DOMAIN xs |-> Sequence(kinds[j], xs[j])])
    /\ op' = "combinations_of"
    /\ UNCHANGED <<gen, objects>>

NextCombinationsOf == CallCombinationsOf

SpecCombinationsOf == Init /\ [][NextCombinationsOf]_vars

\* C28: over single-use generators combinations yields the tuples, in the
\* order, that it yields over arrays holding the same elements.
C28_CombinationsOverGenerators ==
    op = "combinations_of" =>
        result = combinations([j \in DOMAIN args |-> args[j].xs])

\* C30: in every state of a Looper or a Timer, whatever the interleaving of
\* start(), stop() and the host running the callback, id is non-null exactly
\* when the registration it names is pending for the object, so that stop()
\* never clears a registration that is no longer pending.
C30_IdIffPending ==
    /\ (looper.id # Null) <=> (looper.id \in OwnedBy(looper))
    /\ (timer.id # Null) <=> (timer.id \in OwnedBy(timer))

====
